---- MODULE Spec2Model ----
(***************************************************************************)
(* ArborIA backend (backend/server.py): farms, trees, interventions and    *)
(* tree photos kept in a MySQL store, with the offline sync reconciler     *)
(* sync_trees.  Every handler runs inside get_db(): commit on success,     *)
(* rollback on any exception.  The tables' constraints (primary keys, the  *)
(* unique (farm_id, position) index, the ON DELETE CASCADE foreign keys,   *)
(* the NOT NULL columns and the column defaults) live in the schema, which *)
(* is not part of server.py; they are modelled from the specification.     *)
(* The gps columns and the users table take part in no property below and  *)
(* are left out.                                                           *)
(***************************************************************************)
EXTENDS Integers, Sequences, FiniteSets, TLC

\* ------------------------------------------------------------------ bounds
MaxClock == 3      \* clock readings (datetime.utcnow(), CURRENT_TIMESTAMP) in one behaviour
MaxBatch == 2      \* records in one sync_trees batch
MaxPhotos == 3     \* photos in the list of one tree

\* ------------------------------------------------------------- value sets
NULL == "NULL"                 \* SQL NULL / Python None
EmptyId == 0                   \* an absent or empty "id" (falsy in Python)
Ghost == 99                    \* a client identity generate_id() never issued
Positions == {"A1", "B2"}
PlantDate == "2024-01-01"

VARIABLES
    farms,          \* table farms:         id -> row
    trees,          \* table trees:         id -> row (committed)
    interventions,  \* table interventions: id -> row
    tree_photos,    \* table tree_photos:   id -> row
    nextId,         \* generate_id(): the next fresh identity
    now,            \* datetime.utcnow(): the next clock reading
    last,           \* the last finished call and its HTTP status
    pc,             \* "idle"; "sync" inside sync_trees; "done" with its response out
    batch,          \* sync_trees: sync_batch.trees as the client sent it
    idx,            \* sync_trees: index of the next record of the loop
    tx,             \* sync_trees: table trees as seen inside the open transaction
    synced,         \* sync_trees: the list synced
    errors,         \* sync_trees: the list errors
    attempt,        \* how many times the client has sent this batch (0: no batch)
    calls           \* concurrent inserting calls: caller -> where its call stands

vars == <<farms, trees, interventions, tree_photos, nextId, now, last,
          pc, batch, idx, tx, synced, errors, attempt, calls>>

syncVars == <<batch, idx, tx, synced, errors, attempt>>

\* ------------------------------------------------------------ dict helpers
\* dict.get(key): the value, or None when the key is absent
Get(d, k) == IF k \in DOMAIN d THEN d[k] ELSE NULL

\* dict.get(key, default)
GetOr(d, k, dflt) == IF k \in DOMAIN d THEN d[k] ELSE dflt

\* dict.get("id"): absent, None and "" are all written EmptyId
GetId(d) == IF "id" \in DOMAIN d THEN d.id ELSE EmptyId

\* Python truthiness of an identity: None and "" are falsy
Truthy(v) == v # EmptyId

\* table without the rows whose keys are in S
Without(T, S) == [i \in DOMAIN T \ S |-> T[i]]

\* ------------------------------------------------------------------ store
\* some row of trees already holds (farm_id, position)
PositionTakenMutant(T, f, p) == FALSE
PositionTaken(T, f, p) == \E i \in DOMAIN T : T[i].farm_id = f /\ T[i].position = p

\* unique index on trees (farm_id, position): would row r under key id clash
UniqueClashMutant(T, id, r) == FALSE
UniqueClash(T, id, r) ==
    \E i \in DOMAIN T \ {id} : T[i].farm_id = r.farm_id /\ T[i].position = r.position

\* NOT NULL columns of trees (farm_id is never given as None by the inputs below)
TreeNotNullOk(r) == r.position # NULL /\ r.species # NULL /\ r.health # NULL

\* INSERT INTO trees succeeds: primary key, foreign key, unique index, NOT NULL
\* (the mutant: trees.farm_id is no foreign key)
TreeInsertOkMutant(F, T, id, r) ==
    /\ id \notin DOMAIN T
    /\ TreeNotNullOk(r)
    /\ ~UniqueClash(T, id, r)

TreeInsertOk(F, T, id, r) ==
    /\ id \notin DOMAIN T
    /\ TreeNotNullOk(r)
    /\ r.farm_id \in DOMAIN F
    /\ ~UniqueClash(T, id, r)

\* UPDATE trees ... WHERE id succeeds: unique index, NOT NULL
TreeUpdateOk(T, id, r) == TreeNotNullOk(r) /\ ~UniqueClash(T, id, r)

\* ON DELETE CASCADE: the trees of farm f
TreesOfFarm(T, f) == {i \in DOMAIN T : T[i].farm_id = f}

\* rows of a child table (interventions, tree_photos) owned by the trees in S
ChildrenOf(C, S) == {i \in DOMAIN C : C[i].tree_id \in S}

\* column defaults of trees the INSERT statements rely on
TreeDefaults ==
    [variety |-> NULL, plant_date |-> NULL, health |-> "good", notes |-> NULL,
     photo |-> NULL, origin |-> NULL, synced |-> TRUE]

\* ------------------------------------------------------------------- init
Result(op, code) == [op |-> op, code |-> code]

\* the external callers whose calls may interleave, and a caller with no call
Procs == {"c1", "c2"}
NoCall == [op |-> "none", at |-> "none", row |-> <<>>, code |-> 0, error |-> NULL]

Init ==
    /\ calls = [p \in Procs |-> NoCall]
    /\ farms = <<>>
    /\ trees = <<>>
    /\ interventions = <<>>
    /\ tree_photos = <<>>
    /\ nextId = 1
    /\ now = 1
    /\ last = Result("none", 0)
    /\ pc = "idle"
    /\ batch = <<>>
    /\ idx = 1
    /\ tx = <<>>
    /\ synced = <<>>
    /\ errors = <<>>
    /\ attempt = 0

\* HTTPException (or a store error) inside get_db(): rollback, nothing changes
Abort(op, code) ==
    /\ last' = Result(op, code)
    /\ UNCHANGED <<farms, trees, interventions, tree_photos>>

\* HTTPException(status_code=400, detail=f"... {position}"): the position is named
Conflict(op, position) ==
    /\ last' = [op |-> op, code |-> 400, detail |-> position]
    /\ UNCHANGED <<farms, trees, interventions, tree_photos>>

\* --------------------------------------------------------------- inputs
\* request bodies of create_farm (class Farm)
FarmPayloads == {[name |-> "Orchard-1", description |-> NULL, grid_rows |-> 5, grid_cols |-> 5]}

\* farm identities a request may name: the farms of the store, or one that is not there
FarmRefs == DOMAIN farms \cup {Ghost}

\* tree identities a request may name
TreeRefs == DOMAIN trees \cup {Ghost}

\* the fields of a tree a client fills in besides farm and position (class Tree)
TreeProfiles ==
    { [species |-> "Olive", variety |-> "Picual", health |-> "good", notes |-> "n1",
       photo |-> NULL, synced |-> TRUE, origin |-> NULL],
      [species |-> "Fig", variety |-> NULL, health |-> "poor", notes |-> NULL,
       photo |-> "p1", synced |-> FALSE, origin |-> "graft"] }

\* a request body of create_tree
TreeBody(f, p, prof) == [farm_id |-> f, position |-> p, plant_date |-> PlantDate] @@ prof

\* request bodies of update_tree (class TreeUpdate): a field that is None is absent
TreePatches ==
    {[position |-> p] : p \in Positions}
    \cup { <<>>, [species |-> "Fig", health |-> "poor", synced |-> FALSE], [photo |-> "p1"] }

\* ----------------------------------------------------------------- farms
create_farm(farm) ==
    /\ pc = "idle"
    /\ now <= MaxClock
    /\ farms' = farms @@ (nextId :> [name |-> farm.name, description |-> farm.description,
                                     grid_rows |-> farm.grid_rows, grid_cols |-> farm.grid_cols,
                                     updated_at |-> now])
    /\ nextId' = nextId + 1
    /\ now' = now + 1
    /\ last' = Result("create_farm", 200)
    /\ UNCHANGED <<trees, interventions, tree_photos, pc, syncVars, calls>>

\* request bodies of update_farm (class FarmUpdate): a field that is None is absent
FarmPatches ==
    { <<>>, [name |-> "Orchard-2"], [description |-> "d1"], [grid_rows |-> 7, grid_cols |-> 9] }

\* the SET list update_farm builds: the provided fields over the stored row
PatchedFarm(row, patch, t) ==
    [k \in DOMAIN row |->
        IF k = "updated_at" THEN t
        ELSE IF k \in DOMAIN patch THEN patch[k] ELSE row[k]]

update_farm(farm_id, farm_update) ==
    /\ pc = "idle"
    /\ IF farm_id \notin DOMAIN farms
          THEN /\ Abort("update_farm", 404)
               /\ UNCHANGED now
          ELSE IF DOMAIN farm_update = {}
          THEN /\ last' = Result("update_farm", 200)
               /\ UNCHANGED <<farms, trees, interventions, tree_photos, now>>
          ELSE /\ now <= MaxClock
               /\ now' = now + 1
               /\ farms' = [farms EXCEPT ![farm_id] = PatchedFarm(@, farm_update, now)]
               /\ last' = Result("update_farm", 200)
               /\ UNCHANGED <<trees, interventions, tree_photos>>
    /\ UNCHANGED <<nextId, pc, syncVars, calls>>

\* DELETE FROM farms WHERE id = f, with the cascades of the schema (the mutant:
\* the interventions and photos of the farm's trees stay)
DeleteFarmRowMutant(f) ==
    /\ farms' = Without(farms, {f})
    /\ trees' = Without(trees, TreesOfFarm(trees, f))
    /\ UNCHANGED <<interventions, tree_photos>>

DeleteFarmRow(f) ==
    /\ farms' = Without(farms, {f})
    /\ trees' = Without(trees, TreesOfFarm(trees, f))
    /\ interventions' = Without(interventions, ChildrenOf(interventions, TreesOfFarm(trees, f)))
    /\ tree_photos' = Without(tree_photos, ChildrenOf(tree_photos, TreesOfFarm(trees, f)))

delete_farm_mutant(farm_id) ==
    /\ pc = "idle"
    /\ IF farm_id \notin DOMAIN farms
          THEN Abort("delete_farm", 404)
          ELSE /\ DeleteFarmRowMutant(farm_id)
               /\ last' = Result("delete_farm", 200)
    /\ UNCHANGED <<nextId, now, pc, syncVars, calls>>

delete_farm(farm_id) ==
    /\ pc = "idle"
    /\ IF farm_id \notin DOMAIN farms
          THEN Abort("delete_farm", 404)
          ELSE /\ DeleteFarmRow(farm_id)
               /\ last' = Result("delete_farm", 200)
    /\ UNCHANGED <<nextId, now, pc, syncVars, calls>>

\* ----------------------------------------------------------------- trees
\* a row of tree_photos: tree_id and photo as given by the INSERT, created_at the
\* column default, the time of the INSERT
PhotoRow(t, photo, at) == [tree_id |-> t, photo |-> photo, created_at |-> at]

\* the row create_tree inserts for request body tree at clock reading t
CreateTreeRow(tree, t) ==
    [farm_id |-> tree.farm_id, position |-> tree.position, species |-> tree.species,
     variety |-> tree.variety, plant_date |-> tree.plant_date, health |-> tree.health,
     notes |-> tree.notes, photo |-> tree.photo, origin |-> tree.origin,
     synced |-> tree.synced, updated_at |-> t]

create_tree(tree) ==
    /\ pc = "idle"
    /\ IF PositionTaken(trees, tree.farm_id, tree.position)
          THEN /\ Conflict("create_tree", tree.position)
               /\ UNCHANGED <<nextId, now>>
          ELSE /\ now <= MaxClock
               /\ now' = now + 1
               /\ IF ~TreeInsertOk(farms, trees, nextId, CreateTreeRow(tree, now))
                     THEN /\ Abort("create_tree", 500)
                          /\ nextId' = nextId + 1
                     ELSE /\ trees' = trees @@ (nextId :> CreateTreeRow(tree, now))
                          /\ IF tree.photo # NULL
                                THEN /\ tree_photos' = tree_photos @@
                                          ((nextId + 1) :> PhotoRow(nextId, tree.photo, now))
                                     /\ nextId' = nextId + 2
                                ELSE /\ UNCHANGED tree_photos
                                     /\ nextId' = nextId + 1
                          /\ last' = Result("create_tree", 200)
                          /\ UNCHANGED <<farms, interventions>>
    /\ UNCHANGED <<pc, syncVars, calls>>

\* the SET list update_tree builds: the provided fields over the stored row (the
\* mutant: updated_at alone is written)
PatchedTreeMutant(row, patch, t) == [row EXCEPT !.updated_at = t]

PatchedTree(row, patch, t) ==
    [k \in DOMAIN row |->
        IF k = "updated_at" THEN t
        ELSE IF k \in DOMAIN patch THEN patch[k] ELSE row[k]]

update_tree(tree_id, tree_update) ==
    /\ pc = "idle"
    /\ IF tree_id \notin DOMAIN trees
          THEN /\ Abort("update_tree", 404)
               /\ UNCHANGED now
          ELSE IF DOMAIN tree_update = {}
          THEN /\ last' = Result("update_tree", 200)
               /\ UNCHANGED <<farms, trees, interventions, tree_photos, now>>
          ELSE /\ now <= MaxClock
               /\ now' = now + 1
               /\ IF ~TreeUpdateOk(trees, tree_id, PatchedTree(trees[tree_id], tree_update, now))
                     THEN Abort("update_tree", 500)
                     ELSE /\ trees' = [trees EXCEPT ![tree_id] = PatchedTree(@, tree_update, now)]
                          /\ last' = Result("update_tree", 200)
                          /\ UNCHANGED <<farms, interventions, tree_photos>>
    /\ UNCHANGED <<nextId, pc, syncVars, calls>>

\* DELETE FROM trees WHERE id = t, with the cascades of the schema (the mutant:
\* the interventions and photos of the tree stay)
DeleteTreeRowMutant(t) ==
    /\ trees' = Without(trees, {t})
    /\ UNCHANGED <<interventions, tree_photos>>

DeleteTreeRow(t) ==
    /\ trees' = Without(trees, {t})
    /\ interventions' = Without(interventions, ChildrenOf(interventions, {t}))
    /\ tree_photos' = Without(tree_photos, ChildrenOf(tree_photos, {t}))

delete_tree_mutant(tree_id) ==
    /\ pc = "idle"
    /\ IF tree_id \notin DOMAIN trees
          THEN Abort("delete_tree", 404)
          ELSE /\ DeleteTreeRowMutant(tree_id)
               /\ last' = Result("delete_tree", 200)
               /\ UNCHANGED farms
    /\ UNCHANGED <<nextId, now, pc, syncVars, calls>>

delete_tree(tree_id) ==
    /\ pc = "idle"
    /\ IF tree_id \notin DOMAIN trees
          THEN Abort("delete_tree", 404)
          ELSE /\ DeleteTreeRow(tree_id)
               /\ last' = Result("delete_tree", 200)
               /\ UNCHANGED farms
    /\ UNCHANGED <<nextId, now, pc, syncVars, calls>>

\* ------------------------------------------------------------- duplicate
Today == "today"               \* now.date()

\* f"Dupliqué de {source['position']}"
DupNote(p) == IF p = "A1" THEN "Duplique de A1" ELSE IF p = "B2" THEN "Duplique de B2"
              ELSE "Duplique de C3"

\* the row duplicate_tree inserts; photo is left to the column default
DuplicateRowMutant(source, farm_id, position, t) ==
    [farm_id |-> farm_id, position |-> position, species |-> source.species,
     variety |-> source.variety, plant_date |-> Today, health |-> source.health,
     notes |-> source.notes, photo |-> TreeDefaults.photo,
     origin |-> source.origin, synced |-> TRUE, updated_at |-> t]

DuplicateRow(source, farm_id, position, t) ==
    [farm_id |-> farm_id, position |-> position, species |-> source.species,
     variety |-> source.variety, plant_date |-> Today, health |-> "good",
     notes |-> DupNote(source.position), photo |-> TreeDefaults.photo,
     origin |-> source.origin, synced |-> TRUE, updated_at |-> t]

\* data.target_farm_id or source["farm_id"]
TargetFarm(target_farm_id, source) ==
    IF Truthy(target_farm_id) THEN target_farm_id ELSE source.farm_id

duplicate_tree_mutant(source_tree_id, target_position, target_farm_id) ==
    /\ pc = "idle"
    /\ IF source_tree_id \notin DOMAIN trees
          THEN /\ Abort("duplicate_tree", 500)
               /\ UNCHANGED <<nextId, now>>
          ELSE /\ now <= MaxClock
               /\ nextId' = nextId + 1
               /\ now' = now + 1
               /\ LET row == DuplicateRow(trees[source_tree_id],
                                          TargetFarm(target_farm_id, trees[source_tree_id]),
                                          target_position, now)
                  IN IF ~TreeInsertOk(farms, trees, nextId, row)
                        THEN Abort("duplicate_tree", 500)
                        ELSE /\ trees' = trees @@ (nextId :> row)
                             /\ last' = Result("duplicate_tree", 200)
                             /\ UNCHANGED <<farms, interventions, tree_photos>>
    /\ UNCHANGED <<pc, syncVars, calls>>

duplicate_tree(source_tree_id, target_position, target_farm_id) ==
    /\ pc = "idle"
    /\ IF source_tree_id \notin DOMAIN trees
          THEN /\ Abort("duplicate_tree", 404)
               /\ UNCHANGED <<nextId, now>>
          ELSE IF PositionTaken(trees, TargetFarm(target_farm_id, trees[source_tree_id]),
                                target_position)
          THEN /\ Conflict("duplicate_tree", target_position)
               /\ UNCHANGED <<nextId, now>>
          ELSE /\ now <= MaxClock
               /\ nextId' = nextId + 1
               /\ now' = now + 1
               /\ LET row == DuplicateRow(trees[source_tree_id],
                                          TargetFarm(target_farm_id, trees[source_tree_id]),
                                          target_position, now)
                  IN IF ~TreeInsertOk(farms, trees, nextId, row)
                        THEN Abort("duplicate_tree", 500)
                        ELSE /\ trees' = trees @@ (nextId :> row)
                             /\ last' = Result("duplicate_tree", 200)
                             /\ UNCHANGED <<farms, interventions, tree_photos>>
    /\ UNCHANGED <<pc, syncVars, calls>>

\* --------------------------------------------------------- interventions
InterventionTypes == {"watering"}

\* create_intervention without its lookup of the tree
create_intervention_mutant(tree_id, type) ==
    /\ pc = "idle"
    /\ now <= MaxClock
    /\ now' = now + 1
    /\ nextId' = nextId + 1
    /\ interventions' = interventions @@ (nextId :> [tree_id |-> tree_id, type |-> type])
    /\ last' = Result("create_intervention", 200)
    /\ UNCHANGED <<farms, trees, tree_photos>>
    /\ UNCHANGED <<pc, syncVars, calls>>

create_intervention(tree_id, type) ==
    /\ pc = "idle"
    /\ IF tree_id \notin DOMAIN trees
          THEN /\ Abort("create_intervention", 404)
               /\ UNCHANGED <<nextId, now>>
          ELSE /\ now <= MaxClock
               /\ now' = now + 1
               /\ nextId' = nextId + 1
               /\ interventions' = interventions @@ (nextId :> [tree_id |-> tree_id, type |-> type])
               /\ last' = Result("create_intervention", 200)
               /\ UNCHANGED <<farms, trees, tree_photos>>
    /\ UNCHANGED <<pc, syncVars, calls>>

delete_intervention_mutant(intervention_id) ==
    /\ pc = "idle"
    /\ interventions' = Without(interventions, {intervention_id})
    /\ last' = Result("delete_intervention", 200)
    /\ UNCHANGED <<farms, trees, tree_photos>>
    /\ UNCHANGED <<nextId, now, pc, syncVars, calls>>

delete_intervention(intervention_id) ==
    /\ pc = "idle"
    /\ IF intervention_id \notin DOMAIN interventions
          THEN Abort("delete_intervention", 404)
          ELSE /\ interventions' = Without(interventions, {intervention_id})
               /\ last' = Result("delete_intervention", 200)
               /\ UNCHANGED <<farms, trees, tree_photos>>
    /\ UNCHANGED <<nextId, now, pc, syncVars, calls>>

\* ------------------------------------------------------------------ sync
\* UPDATE trees SET species, variety, health, notes, synced=TRUE, updated_at (the
\* mutant: the record's position is written too)
SyncUpdateRowMutant(row, tree_data, t) ==
    [row EXCEPT !.position = GetOr(tree_data, "position", @),
                !.species = Get(tree_data, "species"),
                !.variety = Get(tree_data, "variety"),
                !.health = Get(tree_data, "health"),
                !.notes = Get(tree_data, "notes"),
                !.synced = TRUE,
                !.updated_at = t]

SyncUpdateRow(row, tree_data, t) ==
    [row EXCEPT !.species = Get(tree_data, "species"),
                !.variety = Get(tree_data, "variety"),
                !.health = Get(tree_data, "health"),
                !.notes = Get(tree_data, "notes"),
                !.synced = TRUE,
                !.updated_at = t]

\* INSERT INTO trees (id, farm_id, position, species, variety, plant_date, health,
\* notes, synced): the other columns take their defaults
SyncInsertRow(tree_data, t) ==
    [farm_id |-> tree_data.farm_id, position |-> tree_data.position,
     species |-> tree_data.species, variety |-> Get(tree_data, "variety"),
     plant_date |-> Get(tree_data, "plant_date"),
     health |-> GetOr(tree_data, "health", "good"), notes |-> Get(tree_data, "notes"),
     photo |-> TreeDefaults.photo, origin |-> TreeDefaults.origin,
     synced |-> TRUE, updated_at |-> t]

\* the record takes the update branch: a truthy id that SELECT finds
IsUpdate(T, tree_data) == Truthy(GetId(tree_data)) /\ GetId(tree_data) \in DOMAIN T

\* tree_data["farm_id"], tree_data["position"], tree_data["species"] raise KeyError
HasInsertKeys(tree_data) == {"farm_id", "position", "species"} \subseteq DOMAIN tree_data

\* tree_data["id"] = tree_id
WithIdMutant(tree_data, tree_id) == tree_data
WithId(tree_data, tree_id) == ("id" :> tree_id) @@ tree_data

\* an entry of synced / errors; idx stands for the dict object of the batch
SyncedEntry(i, tree_data) == [idx |-> i, data |-> tree_data]
ErrorEntry(i, tree_data, e) == [idx |-> i, data |-> tree_data, error |-> e]

\* synced.append(tree_data)
AppendSynced(list, i, tree_data) == Append(list, SyncedEntry(i, tree_data))

\* except Exception as e: errors.append({"data": tree_data, "error": str(e)})
AppendErrorMutant(list, i, tree_data, e) == list
AppendError(list, i, tree_data, e) == Append(list, ErrorEntry(i, tree_data, e))

\* for tree_data in sync_batch.trees: the record of iteration i
RecordAtMutant(b, i) == b[Len(b) + 1 - i]
RecordAt(b, i) == b[i]

\* the try/except sits inside the loop: after a failed record the loop goes on
AfterErrorMutant(b, i) == Len(b) + 1
AfterError(b, i) == i + 1

sync_trees_begin(b) ==
    /\ pc = "idle"
    /\ now + Len(b) - 1 <= MaxClock
    /\ pc' = "sync"
    /\ batch' = b
    /\ idx' = 1
    /\ tx' = trees
    /\ synced' = <<>>
    /\ errors' = <<>>
    /\ attempt' = 1
    /\ UNCHANGED <<farms, trees, interventions, tree_photos, nextId, now, last, calls>>

\* one iteration of the for loop
sync_trees_record ==
    /\ pc = "sync"
    /\ idx <= Len(batch)
    /\ LET tree_data == RecordAt(batch, idx) IN
       IF IsUpdate(tx, tree_data)
          THEN /\ IF TreeUpdateOk(tx, tree_data.id, SyncUpdateRow(tx[tree_data.id], tree_data, now))
                     THEN /\ tx' = [tx EXCEPT ![tree_data.id] = SyncUpdateRow(@, tree_data, now)]
                          /\ synced' = AppendSynced(synced, idx, tree_data)
                          /\ idx' = idx + 1
                          /\ UNCHANGED errors
                     ELSE /\ errors' = AppendError(errors, idx, tree_data, "IntegrityError")
                          /\ idx' = AfterError(batch, idx)
                          /\ UNCHANGED <<tx, synced>>
               /\ UNCHANGED nextId
          ELSE /\ nextId' = nextId + 1
               /\ IF ~HasInsertKeys(tree_data)
                     THEN /\ errors' = AppendError(errors, idx, tree_data, "KeyError")
                          /\ idx' = AfterError(batch, idx)
                          /\ UNCHANGED <<tx, synced>>
                     ELSE IF ~TreeInsertOk(farms, tx, nextId, SyncInsertRow(tree_data, now))
                     THEN /\ errors' = AppendError(errors, idx, tree_data, "IntegrityError")
                          /\ idx' = AfterError(batch, idx)
                          /\ UNCHANGED <<tx, synced>>
                     ELSE /\ tx' = tx @@ (nextId :> SyncInsertRow(tree_data, now))
                          /\ synced' = AppendSynced(synced, idx, WithId(tree_data, nextId))
                          /\ idx' = idx + 1
                          /\ UNCHANGED errors
    /\ now' = now + 1
    /\ UNCHANGED <<farms, trees, interventions, tree_photos, last, pc, batch, attempt, calls>>

\* leaving get_db(): conn.commit(), then the response
sync_trees_return ==
    /\ pc = "sync"
    /\ idx > Len(batch)
    /\ trees' = tx
    /\ pc' = "done"
    /\ last' = Result("sync_trees", 200)
    /\ UNCHANGED <<farms, interventions, tree_photos, nextId, now, syncVars, calls>>

\* conn.commit() raises: rollback, the call fails and nothing of the batch is kept
sync_trees_commit_fails ==
    /\ pc = "sync"
    /\ idx > Len(batch)
    /\ pc' = "idle"
    /\ last' = Result("sync_trees", 500)
    /\ batch' = <<>>
    /\ idx' = 1
    /\ tx' = <<>>
    /\ synced' = <<>>
    /\ errors' = <<>>
    /\ attempt' = 0
    /\ UNCHANGED <<farms, trees, interventions, tree_photos, nextId, now, calls>>

\* the client has read the response
sync_trees_end ==
    /\ pc = "done"
    /\ pc' = "idle"
    /\ batch' = <<>>
    /\ idx' = 1
    /\ tx' = <<>>
    /\ synced' = <<>>
    /\ errors' = <<>>
    /\ attempt' = 0
    /\ UNCHANGED <<farms, trees, interventions, tree_photos, nextId, now, last, calls>>

\* the client sends the batch it has just sent once more, as it first sent it
sync_trees_again ==
    /\ pc = "done"
    /\ attempt = 1
    /\ pc' = "sync"
    /\ idx' = 1
    /\ tx' = trees
    /\ synced' = <<>>
    /\ errors' = <<>>
    /\ attempt' = 2
    /\ UNCHANGED <<farms, trees, interventions, tree_photos, nextId, now, last, batch, calls>>

\* ---------------------------------------------------------------- import
\* identities carried by an imported file
ImpTree == 102

\* farm.get("id") or generate_id(): the identity used, and whether one was generated
RECURSIVE ImportFarms(_, _, _)
ImportFarms(st, list, t) ==
    IF list = <<>> THEN st
    ELSE LET farm == Head(list)
             gen == ~Truthy(GetId(farm))
             id == IF gen THEN st.nid ELSE farm.id
             row == [name |-> farm.name, description |-> Get(farm, "description"),
                     grid_rows |-> GetOr(farm, "grid_rows", 20),
                     grid_cols |-> GetOr(farm, "grid_cols", 20), updated_at |-> t]
         IN ImportFarms([tbl |-> IF id \in DOMAIN st.tbl THEN st.tbl ELSE st.tbl @@ (id :> row),
                         nid |-> IF gen THEN st.nid + 1 ELSE st.nid],
                        Tail(list), t)

\* the row INSERT IGNORE INTO trees writes; photo and synced take their defaults
ImportTreeRow(tree, t) ==
    [farm_id |-> tree.farm_id, position |-> tree.position, species |-> tree.species,
     variety |-> Get(tree, "variety"), plant_date |-> Get(tree, "plant_date"),
     health |-> GetOr(tree, "health", "good"), notes |-> Get(tree, "notes"),
     photo |-> TreeDefaults.photo, origin |-> Get(tree, "origin"),
     synced |-> TreeDefaults.synced, updated_at |-> t]

\* INSERT IGNORE skips a row that breaks a key or a foreign key
RECURSIVE ImportTrees(_, _, _, _)
ImportTrees(st, F, list, t) ==
    IF list = <<>> THEN st
    ELSE LET tree == Head(list)
             gen == ~Truthy(GetId(tree))
             id == IF gen THEN st.nid ELSE tree.id
             row == ImportTreeRow(tree, t)
         IN ImportTrees([tbl |-> IF TreeInsertOk(F, st.tbl, id, row)
                                    THEN st.tbl @@ (id :> row) ELSE st.tbl,
                         nid |-> IF gen THEN st.nid + 1 ELSE st.nid],
                        F, Tail(list), t)

RECURSIVE ImportInterventions(_, _, _)
ImportInterventions(st, T, list) ==
    IF list = <<>> THEN st
    ELSE LET intervention == Head(list)
             gen == ~Truthy(GetId(intervention))
             id == IF gen THEN st.nid ELSE intervention.id
             row == [tree_id |-> intervention.tree_id, type |-> intervention.type]
         IN ImportInterventions(
                [tbl |-> IF id \notin DOMAIN st.tbl /\ row.tree_id \in DOMAIN T
                            THEN st.tbl @@ (id :> row) ELSE st.tbl,
                 nid |-> IF gen THEN st.nid + 1 ELSE st.nid],
                T, Tail(list))

\* farm["name"], tree["farm_id"], ... raise KeyError on a missing key
ImportKeysOk(data) ==
    /\ \A i \in 1..Len(data.farms) : "name" \in DOMAIN data.farms[i]
    /\ \A i \in 1..Len(data.trees) : HasInsertKeys(data.trees[i])
    /\ \A i \in 1..Len(data.interventions) :
          {"tree_id", "type"} \subseteq DOMAIN data.interventions[i]

import_data(data) ==
    /\ pc = "idle"
    /\ IF ~ImportKeysOk(data)
          THEN /\ Abort("import_data", 500)
               /\ UNCHANGED <<nextId, now>>
          ELSE /\ now <= MaxClock
               /\ LET f == ImportFarms([tbl |-> farms, nid |-> nextId], data.farms, now)
                      t == ImportTrees([tbl |-> trees, nid |-> f.nid], f.tbl, data.trees, now)
                      i == ImportInterventions([tbl |-> interventions, nid |-> t.nid],
                                               t.tbl, data.interventions)
                  IN /\ farms' = f.tbl
                     /\ trees' = t.tbl
                     /\ interventions' = i.tbl
                     /\ nextId' = i.nid
               /\ now' = now + 1
               /\ last' = Result("import_data", 200)
               /\ UNCHANGED tree_photos
    /\ UNCHANGED <<pc, syncVars, calls>>

\* imported files: a farm or a tree without identity, two trees of one farm, a tree
\* under the identity the file gives it, a tree or an intervention re-imported under the
\* identity it has in the store, an intervention without identity, and a tree
\* without its species
OneFarm(farm) == [farms |-> <<farm>>, trees |-> <<>>, interventions |-> <<>>]
OneTree(tree) == [farms |-> <<>>, trees |-> <<tree>>, interventions |-> <<>>]
OneIntervention(i) == [farms |-> <<>>, trees |-> <<>>, interventions |-> <<i>>]

FileTree == [species |-> "Olive", variety |-> "Picual", health |-> "good", notes |-> "n1",
             plant_date |-> PlantDate]

ImportFiles ==
    { OneFarm([name |-> "Orchard-1", grid_rows |-> 5, grid_cols |-> 5]),
      OneTree([farm_id |-> Ghost, position |-> "A1"]) }
    \cup { OneTree([farm_id |-> f, position |-> p] @@ FileTree) :
              f \in FarmRefs, p \in Positions }
    \cup { [farms |-> <<>>, interventions |-> <<>>,
             trees |-> <<[farm_id |-> f, position |-> "A1"] @@ FileTree,
                         [farm_id |-> f, position |-> "B2"] @@ FileTree>>] : f \in DOMAIN farms }
    \cup { OneTree([id |-> ImpTree, farm_id |-> f, position |-> "B2"] @@ FileTree) :
              f \in DOMAIN farms }
    \cup { OneTree([id |-> i, farm_id |-> trees[i].farm_id, position |-> "A1"] @@ FileTree) :
              i \in DOMAIN trees }
    \cup { OneIntervention([tree_id |-> t, type |-> "watering"]) : t \in TreeRefs }
    \cup { OneIntervention([id |-> i, tree_id |-> interventions[i].tree_id,
                            type |-> "watering"]) : i \in DOMAIN interventions }

\* --------------------------------------------------------- sync batches
\* records a client may send, against the trees and farms of the store
InsertRecords ==
    { [farm_id |-> f, position |-> "B2", species |-> sp, plant_date |-> PlantDate] :
         f \in DOMAIN farms, sp \in {"Olive", "Fig"} }
    \cup { [id |-> EmptyId, farm_id |-> f, position |-> "A1"] @@ FileTree : f \in DOMAIN farms }

MalformedRecords == { [position |-> "A1", species |-> "Olive"] }

UpdateRecords ==
    { [id |-> i, species |-> "Fig", health |-> "poor"] : i \in DOMAIN trees }
    \cup { [id |-> i, species |-> "Olive", variety |-> "Picual", health |-> "good",
            notes |-> "n1"] : i \in DOMAIN trees }

GhostRecords ==
    { [id |-> Ghost, farm_id |-> f, position |-> "A1"] @@ FileTree : f \in DOMAIN farms }

SyncRecords == InsertRecords \cup MalformedRecords \cup UpdateRecords \cup GhostRecords

\* update records that carry another farm, position, plant date and photo than the
\* tree they name has
MovingRecords ==
    { [id |-> i, farm_id |-> f, position |-> p, plant_date |-> "2025-06-01",
       photo |-> "p9", species |-> "Fig", health |-> "poor"] :
         i \in DOMAIN trees, f \in FarmRefs, p \in Positions }

\* an imported file with two trees of one farm
TwoTreeFiles ==
    { [farms |-> <<>>, interventions |-> <<>>,
       trees |-> <<[farm_id |-> f, position |-> "A1"] @@ FileTree,
                   [farm_id |-> f, position |-> "B2"] @@ FileTree>>] : f \in DOMAIN farms }

\* the batches sent while the other operations run too: one record, or the same
\* insert twice
FewInserts ==
    { [farm_id |-> f, position |-> "B2"] @@ FileTree : f \in DOMAIN farms }
    \cup { [id |-> Ghost, farm_id |-> f, position |-> "A1"] @@ FileTree : f \in DOMAIN farms }

FewBatches ==
    { <<r>> : r \in FewInserts \cup { [id |-> i, species |-> "Fig", health |-> "poor"] :
                                         i \in DOMAIN trees } }
    \cup { <<r, r>> : r \in FewInserts }

\* sequences over S of length n, and of length at most n and at most MaxBatch
RECURSIVE SeqsOf(_, _)
SeqsOf(S, n) == IF n = 0 THEN {<<>>} ELSE {Append(q, x) : q \in SeqsOf(S, n - 1), x \in S}

SeqsUpTo(S, n) == UNION {SeqsOf(S, k) : k \in 0..(IF n < MaxBatch THEN n ELSE MaxBatch)}

\* ---------------------------------------------------------------- photos
\* SELECT ... FROM tree_photos WHERE tree_id = t ORDER BY created_at: the ids of the
\* rows of S, oldest first.  created_at is the column default of the schema; every
\* row of one tree is inserted by a call of its own, at a clock reading of its own.
RECURSIVE OrderByCreatedAt(_, _)
OrderByCreatedAt(P, S) ==
    IF S = {} THEN <<>>
    ELSE LET first == CHOOSE i \in S : \A j \in S : P[i].created_at <= P[j].created_at
         IN <<first>> \o OrderByCreatedAt(P, S \ {first})

PhotoRows(P, t) == OrderByCreatedAt(P, ChildrenOf(P, {t}))

\* the ordered photo list of tree t
PhotoList(P, t) == [k \in 1..Len(PhotoRows(P, t)) |-> P[PhotoRows(P, t)[k]].photo]

\* SELECT COUNT(*) FROM tree_photos WHERE tree_id = t
PhotoCount(P, t) == Cardinality(ChildrenOf(P, {t}))

\* SELECT photo ... ORDER BY created_at DESC LIMIT 1: the newest photo, or None
LastPhoto(P, t) ==
    IF ChildrenOf(P, {t}) = {} THEN NULL ELSE PhotoList(P, t)[Len(PhotoList(P, t))]

\* the response of add_photo and delete_photo
PhotoResult(op, count) == [op |-> op, code |-> 200, photo_count |-> count]

\* photo_data.get("photo"): absent, None and "" are all written NULL
GetPhoto(photo_data) == IF "photo" \in DOMAIN photo_data THEN photo_data.photo ELSE NULL

\* request bodies of add_photo
PhotoBodies == {[photo |-> "p2"], [photo |-> "p3"], <<>>}

\* photo_index of delete_photo
PhotoIndexes == (0 - 1)..MaxPhotos

\* UPDATE trees SET photo = %s, updated_at = %s WHERE id = %s
SetPrimaryMutant(T, t, photo, at) == T
SetPrimary(T, t, photo, at) ==
    IF t \in DOMAIN T THEN [T EXCEPT ![t].photo = photo, ![t].updated_at = at] ELSE T

\* INSERT INTO tree_photos (id, tree_id, photo), created_at by default
AddPhotoRow(P, t, photo, id, at) ==
    P @@ (id :> PhotoRow(t, photo, at))

add_photo(tree_id, photo_data) ==
    /\ pc = "idle"
    /\ IF tree_id \notin DOMAIN trees
          THEN /\ Abort("add_photo", 404)
               /\ UNCHANGED <<nextId, now>>
          ELSE IF GetPhoto(photo_data) = NULL
          THEN /\ last' = PhotoResult("add_photo", PhotoCount(tree_photos, tree_id))
               /\ UNCHANGED <<farms, trees, interventions, tree_photos, nextId, now>>
          ELSE /\ now <= MaxClock + MaxPhotos
               /\ PhotoCount(tree_photos, tree_id) < MaxPhotos
               /\ tree_photos' = AddPhotoRow(tree_photos, tree_id, photo_data.photo, nextId, now)
               /\ trees' = SetPrimary(trees, tree_id, photo_data.photo, now)
               /\ nextId' = nextId + 1
               /\ now' = now + 1
               /\ last' = PhotoResult("add_photo", PhotoCount(tree_photos', tree_id))
               /\ UNCHANGED <<farms, interventions>>
    /\ UNCHANGED <<pc, syncVars, calls>>

\* photos[photo_index] of a Python list, for 0 <= photo_index < len(photos)
PhotoAtMutant(photos, photo_index) == photos[Len(photos)]
PhotoAt(photos, photo_index) == photos[photo_index + 1]

\* DELETE FROM tree_photos WHERE id = photos[photo_index]["id"]
DeletePhotoRow(P, t, photo_index) == Without(P, {PhotoAt(PhotoRows(P, t), photo_index)})

\* delete_photo without the test photo_index < 0: a negative index counts from the end
delete_photo_mutant(tree_id, photo_index) ==
    /\ pc = "idle"
    /\ LET photos == PhotoRows(tree_photos, tree_id) IN
       IF photo_index >= Len(photos) \/ photo_index + Len(photos) < 0
          THEN /\ Abort("delete_photo", 400)
               /\ UNCHANGED now
          ELSE /\ tree_photos' = DeletePhotoRow(tree_photos, tree_id,
                                     IF photo_index < 0 THEN photo_index + Len(photos)
                                     ELSE photo_index)
               /\ trees' = SetPrimary(trees, tree_id, LastPhoto(tree_photos', tree_id), now)
               /\ now' = now + 1
               /\ last' = PhotoResult("delete_photo", Len(photos) - 1)
               /\ UNCHANGED <<farms, interventions>>
    /\ UNCHANGED <<nextId, pc, syncVars, calls>>

delete_photo(tree_id, photo_index) ==
    /\ pc = "idle"
    /\ LET photos == PhotoRows(tree_photos, tree_id) IN
       IF photo_index < 0 \/ photo_index >= Len(photos)
          THEN /\ Abort("delete_photo", 400)
               /\ UNCHANGED now
          ELSE /\ tree_photos' = DeletePhotoRow(tree_photos, tree_id, photo_index)
               /\ trees' = SetPrimary(trees, tree_id, LastPhoto(tree_photos', tree_id), now)
               /\ now' = now + 1
               /\ last' = PhotoResult("delete_photo", Len(photos) - 1)
               /\ UNCHANGED <<farms, interventions>>
    /\ UNCHANGED <<nextId, pc, syncVars, calls>>

\* ------------------------------------------------------------ statistics
\* d[k] = v on a dict
Put(d, k, v) == [x \in DOMAIN d \cup {k} |-> IF x = k THEN v ELSE d[x]]

\* the keys of stats that hold a dict: adding 1 to one of them raises TypeError
DictKeys == {"species_count", "interventions_by_type"}

\* stats as get_statistics first builds it; species_count and interventions_by_type
\* are kept apart below, recent_plantings (wall-clock arithmetic on plant_date) takes
\* part in no property and is left out
NewStats(n) ==
    [total |-> n, good |-> 0, fair |-> 0, poor |-> 0, dead |-> 0, total_interventions |-> 0]

\* for tree in trees: stats[health] = stats.get(health, 0) + 1
RECURSIVE CountHealth(_, _, _)
CountHealth(stats, T, S) ==
    IF S = {} THEN stats
    ELSE LET t == CHOOSE x \in S : TRUE
             health == T[t].health
         IN CountHealth(Put(stats, health, GetOr(stats, health, 0) + 1), T, S \ {t})

\* for tree in trees: species_count[species] = species_count.get(species, 0) + 1
RECURSIVE CountSpecies(_, _, _)
CountSpecies(count, T, S) ==
    IF S = {} THEN count
    ELSE LET t == CHOOSE x \in S : TRUE
             species == T[t].species
         IN CountSpecies(Put(count, species, GetOr(count, species, 0) + 1), T, S \ {t})

\* SELECT type, COUNT(*) FROM interventions WHERE tree_id IN (tree_ids) GROUP BY type
GroupByType(I, S) ==
    [ty \in {I[i].type : i \in ChildrenOf(I, S)} |->
        Cardinality({i \in ChildrenOf(I, S) : I[i].type = ty})]

\* for row in cursor.fetchall(): stats["total_interventions"] += row["count"]
RECURSIVE AddCounts(_, _, _)
AddCounts(n, rows, K) ==
    IF K = {} THEN n
    ELSE LET ty == CHOOSE x \in K : TRUE IN AddCounts(n + rows[ty], rows, K \ {ty})

\* the response of get_statistics over tables T and I
Statistics(T, I, farm_id) ==
    LET S == TreesOfFarm(T, farm_id)
        byHealth == CountHealth(NewStats(Cardinality(S)), T, S)
        rows == IF S = {} THEN <<>> ELSE GroupByType(I, S)
    IN [stats |-> [byHealth EXCEPT !.total_interventions = AddCounts(@, rows, DOMAIN rows)],
        species_count |-> CountSpecies(<<>>, T, S),
        interventions_by_type |-> rows]

get_statistics(farm_id) ==
    /\ pc = "idle"
    /\ IF \E t \in TreesOfFarm(trees, farm_id) : trees[t].health \in DictKeys
          THEN last' = Result("get_statistics", 500)
          ELSE last' = [op |-> "get_statistics", code |-> 200, farm_id |-> farm_id]
                          @@ Statistics(trees, interventions, farm_id)
    /\ UNCHANGED <<farms, trees, interventions, tree_photos, nextId, now, pc, syncVars, calls>>

\* health values a client may store: "sick" is none of good/fair/poor/dead, "total"
\* is the name of another field of the response
StoredHealths == {"good", "sick", "total"}

\* imported files for the statistics: two trees of a farm, an intervention of a tree
StatFiles ==
    { [farms |-> <<>>, interventions |-> <<>>,
       trees |-> <<[farm_id |-> f, position |-> "A1", species |-> "Olive", health |-> h1],
                   [farm_id |-> f, position |-> "B2", species |-> "Fig", health |-> h2]>>] :
         f \in DOMAIN farms, h1 \in StoredHealths, h2 \in StoredHealths }
    \cup { OneIntervention([tree_id |-> t, type |-> ty]) :
              t \in DOMAIN trees, ty \in {"watering", "pruning"} }

\* ------------------------------------------------------ failing store steps
\* get_db(): an exception inside the with block reaches conn.rollback(); of a table
\* as it was before the call and as the call's statements have left it so far, the
\* store keeps the former (the mutant: the statements already run stay)
RollbackMutant(before, partial) == partial
Rollback(before, partial) == before

\* create_tree: the INSERT INTO trees has run, the INSERT INTO tree_photos raises
create_tree_photo_fails(tree) ==
    /\ pc = "idle"
    /\ tree.photo # NULL
    /\ ~PositionTaken(trees, tree.farm_id, tree.position)
    /\ now <= MaxClock
    /\ TreeInsertOk(farms, trees, nextId, CreateTreeRow(tree, now))
    /\ trees' = Rollback(trees, trees @@ (nextId :> CreateTreeRow(tree, now)))
    /\ nextId' = nextId + 2
    /\ now' = now + 1
    /\ last' = Result("create_tree", 500)
    /\ UNCHANGED <<farms, interventions, tree_photos, pc, syncVars, calls>>

\* add_photo: the INSERT INTO tree_photos has run, the UPDATE trees raises
add_photo_update_fails(tree_id, photo_data) ==
    /\ pc = "idle"
    /\ tree_id \in DOMAIN trees
    /\ GetPhoto(photo_data) # NULL
    /\ now <= MaxClock + MaxPhotos
    /\ PhotoCount(tree_photos, tree_id) < MaxPhotos
    /\ tree_photos' = Rollback(tree_photos,
                               AddPhotoRow(tree_photos, tree_id, photo_data.photo, nextId, now))
    /\ nextId' = nextId + 1
    /\ now' = now + 1
    /\ last' = Result("add_photo", 500)
    /\ UNCHANGED <<farms, trees, interventions, pc, syncVars, calls>>

\* delete_photo: the DELETE FROM tree_photos has run, the UPDATE trees raises
delete_photo_update_fails(tree_id, photo_index) ==
    /\ pc = "idle"
    /\ photo_index >= 0
    /\ photo_index < Len(PhotoRows(tree_photos, tree_id))
    /\ now <= MaxClock + MaxPhotos
    /\ tree_photos' = Rollback(tree_photos, DeletePhotoRow(tree_photos, tree_id, photo_index))
    /\ now' = now + 1
    /\ last' = Result("delete_photo", 500)
    /\ UNCHANGED <<farms, trees, interventions, nextId, pc, syncVars, calls>>

\* ----------------------------------------------------- concurrent inserts
\* Two callers, each on its own connection: a handler's SELECTs see the committed
\* store, its INSERT is checked against the committed store when it runs, and
\* other calls may commit in between.  Both callers may read the same clock.
UNCHANGED_seq == UNCHANGED <<farms, interventions, tree_photos, now, last, pc, syncVars>>

\* create_tree up to the INSERT: the position lookup, then generate_id() and utcnow()
create_tree_check(c, tree) ==
    /\ pc = "idle"
    /\ calls[c].at = "none"
    /\ calls' = [calls EXCEPT ![c] =
          IF PositionTaken(trees, tree.farm_id, tree.position)
             THEN [op |-> "create_tree", at |-> "done", row |-> CreateTreeRow(tree, now),
                   code |-> 400, error |-> NULL]
             ELSE [op |-> "create_tree", at |-> "insert", row |-> CreateTreeRow(tree, now),
                   code |-> 0, error |-> NULL]]
    /\ UNCHANGED <<trees, nextId>>
    /\ UNCHANGED_seq

\* duplicate_tree up to the INSERT: the source is read, then the position lookup
duplicate_tree_check(c, source_tree_id, target_position, target_farm_id) ==
    /\ pc = "idle"
    /\ calls[c].at = "none"
    /\ source_tree_id \in DOMAIN trees
    /\ LET farm_id == TargetFarm(target_farm_id, trees[source_tree_id])
           row == DuplicateRow(trees[source_tree_id], farm_id, target_position, now)
       IN calls' = [calls EXCEPT ![c] =
             IF PositionTaken(trees, farm_id, target_position)
                THEN [op |-> "duplicate_tree", at |-> "done", row |-> row,
                      code |-> 400, error |-> NULL]
                ELSE [op |-> "duplicate_tree", at |-> "insert", row |-> row,
                      code |-> 0, error |-> NULL]]
    /\ UNCHANGED <<trees, nextId>>
    /\ UNCHANGED_seq

\* sync_trees with a batch of one record without identity, up to the INSERT: there
\* is no lookup
sync_insert_begin(c, tree_data) ==
    /\ pc = "idle"
    /\ calls[c].at = "none"
    /\ ~Truthy(GetId(tree_data))
    /\ HasInsertKeys(tree_data)
    /\ calls' = [calls EXCEPT ![c] =
          [op |-> "sync_trees", at |-> "insert", row |-> SyncInsertRow(tree_data, now),
           code |-> 0, error |-> NULL]]
    /\ UNCHANGED <<trees, nextId>>
    /\ UNCHANGED_seq

\* the INSERT of the call and the end of its transaction.  A row the store refuses
\* raises: out of create_tree and duplicate_tree the exception leaves the handler
\* (500); in sync_trees it is caught and listed in errors (200).
call_insert(c) ==
    /\ pc = "idle"
    /\ calls[c].at = "insert"
    /\ nextId' = nextId + 1
    /\ IF TreeInsertOk(farms, trees, nextId, calls[c].row)
          THEN /\ trees' = trees @@ (nextId :> calls[c].row)
               /\ calls' = [calls EXCEPT ![c].at = "done", ![c].code = 200]
          ELSE /\ UNCHANGED trees
               /\ calls' = [calls EXCEPT
                     ![c].at = "done",
                     ![c].code = IF calls[c].op = "sync_trees" THEN 200 ELSE 500,
                     ![c].error = IF calls[c].op = "sync_trees" THEN "IntegrityError" ELSE NULL]
    /\ UNCHANGED_seq

\* ------------------------------------------------------------------ next
Next ==
    \/ \E farm \in FarmPayloads : create_farm(farm)
    \/ \E f \in FarmRefs : delete_farm(f)
    \/ \E f \in FarmRefs, p \in Positions, prof \in TreeProfiles :
          create_tree(TreeBody(f, p, prof))
    \/ \E t \in TreeRefs, patch \in TreePatches : update_tree(t, patch)
    \/ \E t \in TreeRefs : delete_tree(t)
    \/ \E t \in TreeRefs, p \in Positions, f \in FarmRefs \cup {EmptyId} : duplicate_tree(t, p, f)
    \/ \E t \in TreeRefs, ty \in InterventionTypes : create_intervention(t, ty)
    \/ \E i \in DOMAIN interventions \cup {Ghost} : delete_intervention(i)
    \/ \E data \in ImportFiles : import_data(data)
    \/ \E b \in FewBatches : sync_trees_begin(b)
    \/ sync_trees_record
    \/ sync_trees_return
    \/ sync_trees_commit_fails
    \/ sync_trees_end

Spec == Init /\ [][Next]_vars

\* the reconciler on its own: one farm and its trees are created, then batches of
\* every kind of record are sent, and sent again
NextSync ==
    \/ \E farm \in FarmPayloads : DOMAIN farms = {} /\ create_farm(farm)
    \/ \E f \in DOMAIN farms, p \in Positions :
          create_tree([farm_id |-> f, position |-> p, origin |-> NULL, photo |-> NULL,
                       synced |-> FALSE] @@ FileTree)
    \/ pc = "idle" /\ \E b \in SeqsUpTo(SyncRecords, MaxClock - now + 1) : sync_trees_begin(b)
    \/ sync_trees_record
    \/ sync_trees_return
    \/ sync_trees_commit_fails
    \/ sync_trees_end
    \/ sync_trees_again

SpecSync == Init /\ [][NextSync]_vars

\* inserting calls that interleave: a farm and trees are created, then each caller
\* makes one call that inserts a tree
NextRace ==
    \/ \E farm \in FarmPayloads : DOMAIN farms = {} /\ create_farm(farm)
    \/ \E f \in DOMAIN farms, p \in Positions :
          create_tree([farm_id |-> f, position |-> p, origin |-> NULL, photo |-> NULL,
                       synced |-> FALSE] @@ FileTree)
    \/ \E c \in Procs, f \in DOMAIN farms, p \in Positions :
          create_tree_check(c, [farm_id |-> f, position |-> p, origin |-> NULL,
                                photo |-> NULL, synced |-> TRUE] @@ FileTree)
    \/ \E c \in Procs, t \in DOMAIN trees, p \in Positions :
          duplicate_tree_check(c, t, p, EmptyId)
    \/ \E c \in Procs, f \in DOMAIN farms, p \in Positions :
          sync_insert_begin(c, [farm_id |-> f, position |-> p] @@ FileTree)
    \/ \E c \in Procs : call_insert(c)

SpecRace == Init /\ [][NextRace]_vars

\* the photo lists: one farm, its trees created with or without a photo, photos
\* added and deleted, and the photo field written by update_tree
NextPhoto ==
    \/ \E farm \in FarmPayloads : DOMAIN farms = {} /\ create_farm(farm)
    \/ \E f \in DOMAIN farms, ph \in {NULL, "p1"} :
          create_tree([farm_id |-> f, position |-> "A1", origin |-> NULL, photo |-> ph,
                       synced |-> TRUE] @@ FileTree)
    \/ \E t \in TreeRefs : update_tree(t, [photo |-> "p1"])
    \/ \E t \in TreeRefs, photo_data \in PhotoBodies : add_photo(t, photo_data)
    \/ \E t \in TreeRefs, i \in PhotoIndexes : delete_photo(t, i)
    \/ \E t \in TreeRefs : delete_tree(t)

SpecPhoto == Init /\ [][NextPhoto]_vars

\* the statistics: farms, trees of every health, interventions, and the read
NextStats ==
    \/ \E farm \in FarmPayloads : Cardinality(DOMAIN farms) < 2 /\ create_farm(farm)
    \/ \E data \in StatFiles : import_data(data)
    \/ \E t \in DOMAIN trees : delete_tree(t)
    \/ \E f \in FarmRefs : get_statistics(f)

SpecStats == Init /\ [][NextStats]_vars

\* the partial updates: farms, trees created or imported, and patches of every kind
NextUpdate ==
    \/ \E farm \in FarmPayloads : Cardinality(DOMAIN farms) < 2 /\ create_farm(farm)
    \/ \E f \in DOMAIN farms, p \in Positions, prof \in TreeProfiles :
          create_tree(TreeBody(f, p, prof))
    \/ \E data \in ImportFiles : import_data(data)
    \/ \E f \in FarmRefs, patch \in FarmPatches : update_farm(f, patch)
    \/ \E t \in TreeRefs, patch \in TreePatches : update_tree(t, patch)

SpecUpdate == Init /\ [][NextUpdate]_vars

\* single-entity calls that fail: calls the handler or the store refuses, and calls
\* one of whose later store steps raises
NextAbort ==
    \/ \E farm \in FarmPayloads : DOMAIN farms = {} /\ create_farm(farm)
    \/ \E f \in FarmRefs, ph \in {NULL, "p1"} :
          create_tree([farm_id |-> f, position |-> "A1", origin |-> NULL, photo |-> ph,
                       synced |-> TRUE] @@ FileTree)
    \/ \E f \in DOMAIN farms :
          create_tree_photo_fails([farm_id |-> f, position |-> "A1", origin |-> NULL,
                                   photo |-> "p1", synced |-> TRUE] @@ FileTree)
    \/ \E t \in TreeRefs, p \in Positions : update_tree(t, [position |-> p])
    \/ \E t \in TreeRefs : delete_tree(t)
    \/ \E t \in TreeRefs, p \in Positions, f \in {Ghost, EmptyId} : duplicate_tree(t, p, f)
    \/ \E t \in TreeRefs : now <= MaxClock /\ add_photo(t, [photo |-> "p2"])
    \/ \E t \in DOMAIN trees : now <= MaxClock /\ add_photo_update_fails(t, [photo |-> "p2"])
    \/ \E t \in TreeRefs, i \in PhotoIndexes : now <= MaxClock + 1 /\ delete_photo(t, i)
    \/ \E t \in DOMAIN trees, i \in PhotoIndexes :
          now <= MaxClock + 1 /\ delete_photo_update_fails(t, i)

SpecAbort == Init /\ [][NextAbort]_vars

\* update records against trees with and without photos: one farm, its trees, then
\* batches of update records, some of which name another place for their tree
NextMove ==
    \/ \E farm \in FarmPayloads : DOMAIN farms = {} /\ create_farm(farm)
    \/ \E f \in DOMAIN farms, p \in Positions, ph \in {NULL, "p1"} :
          create_tree([farm_id |-> f, position |-> p, origin |-> NULL, photo |-> ph,
                       synced |-> FALSE] @@ FileTree)
    \/ \E data \in TwoTreeFiles : import_data(data)
    \/ pc = "idle" /\ \E b \in SeqsUpTo(MovingRecords \cup UpdateRecords, MaxClock - now + 1) :
          sync_trees_begin(b)
    \/ sync_trees_record
    \/ sync_trees_return
    \/ sync_trees_commit_fails
    \/ sync_trees_end

SpecMove == Init /\ [][NextMove]_vars

\* ============================================================ properties
\* no two rows of T hold the same (farm_id, position)
PositionsUnique(T) ==
    \A i, j \in DOMAIN T :
        (T[i].farm_id = T[j].farm_id /\ T[i].position = T[j].position) => i = j

\* the indices of the batch the entries of a result list stand for
IndicesOf(list) == {list[k].idx : k \in DOMAIN list}

\* the for loop is over and the transaction still open: trees is the store before
\* the call, tx the store the call is about to commit
LoopOver == pc = "sync" /\ idx > Len(batch)

\* record r names a farm and a position, and they are f and p
Targets(r, f, p) ==
    /\ {"farm_id", "position"} \subseteq DOMAIN r
    /\ r.farm_id = f
    /\ r.position = p

\* a record without identity that has the keys an insert needs
IsInsertRecord(r) == ~Truthy(GetId(r)) /\ HasInsertKeys(r)

\* ---------------------------------------------------------------- C1
\* C1: in every reachable state, whatever create_tree, duplicate_tree, sync_trees,
\* update_tree, import_data and the deletes have done, no two trees of the store
\* hold the same (farm_id, position); the same holds inside the open transaction
\* of sync_trees.
C1_PositionUnique == PositionsUnique(trees) /\ (pc = "sync" => PositionsUnique(tx))

\* an update_tree that moves a tree onto the position of another tree of its farm
\* has been refused by the store
C1_Witness ==
    /\ last = Result("update_tree", 500)
    /\ \E i, j \in DOMAIN trees : i # j /\ trees[i].farm_id = trees[j].farm_id

\* ---------------------------------------------------------------- C2
\* C2: a sync_trees record whose non-empty identity matches no tree is reported in
\* errors, and the trees are the same before and after the record is processed.
C2_UnknownIdentityRejected ==
    [][(sync_trees_record /\ Truthy(GetId(batch[idx])) /\ GetId(batch[idx]) \notin DOMAIN tx)
          => (tx' = tx /\ idx \in IndicesOf(errors'))]_vars

\* ---------------------------------------------------------------- C3
\* C3: a sync_trees update record overwrites only the fields it holds: every other
\* field of the stored tree, synced and updated_at aside, keeps its value.
C3_UpdateKeepsOmittedFields ==
    [][(sync_trees_record /\ IsUpdate(tx, batch[idx]))
          => \A k \in DOMAIN tx[batch[idx].id] \ (DOMAIN batch[idx] \cup {"synced", "updated_at"}) :
                 tx'[batch[idx].id][k] = tx[batch[idx].id][k]]_vars

\* ---------------------------------------------------------------- C4
\* C4: at every point of sync_trees the records processed so far are split between
\* synced and errors, each record in exactly one list and once, the entry holding
\* the record it stands for; when the call returns every record of the batch has
\* been processed, so synced_count + error_count = len(batch).
C4_Partition ==
    pc \in {"sync", "done"} =>
        /\ Len(synced) + Len(errors) = idx - 1
        /\ IndicesOf(synced) \cap IndicesOf(errors) = {}
        /\ IndicesOf(synced) \cup IndicesOf(errors) = 1..(idx - 1)
        /\ Cardinality(IndicesOf(synced)) = Len(synced)
        /\ Cardinality(IndicesOf(errors)) = Len(errors)
        /\ \A k \in DOMAIN errors : errors[k].data = batch[errors[k].idx]
        /\ \A k \in DOMAIN synced :
              \A f \in DOMAIN batch[synced[k].idx] \ {"id"} :
                  f \in DOMAIN synced[k].data /\ synced[k].data[f] = batch[synced[k].idx][f]
        /\ (pc = "done" => Len(synced) + Len(errors) = Len(batch))

\* a call has returned with a record in each list
C4_Witness == pc = "done" /\ Len(synced) >= 1 /\ Len(errors) >= 1

\* ---------------------------------------------------------------- C5
\* C5: when the loop of sync_trees is over, of the well-formed records without
\* identity that target one pair (farm_id, position) that was free in an existing
\* farm, the first of the batch is in synced and its tree is the only tree at the
\* pair; every later one is in errors with the store's uniqueness error.  For a
\* batch of two such records: one synced, one error.
C5_FirstWriterWins ==
    LoopOver =>
        \A i \in 1..Len(batch) :
            ( /\ IsInsertRecord(batch[i])
              /\ batch[i].farm_id \in DOMAIN farms
              /\ ~PositionTaken(trees, batch[i].farm_id, batch[i].position)
              /\ \A h \in 1..(i - 1) : ~Targets(batch[h], batch[i].farm_id, batch[i].position) )
            => /\ i \in IndicesOf(synced)
               /\ \E t \in DOMAIN tx \ DOMAIN trees :
                     /\ Targets(tx[t], batch[i].farm_id, batch[i].position)
                     /\ tx[t].species = batch[i].species
                     /\ \A u \in DOMAIN tx :
                           Targets(tx[u], batch[i].farm_id, batch[i].position) => u = t
               /\ \A j \in (i + 1)..Len(batch) :
                     ( IsInsertRecord(batch[j])
                       /\ Targets(batch[j], batch[i].farm_id, batch[i].position) )
                     => /\ \E k \in DOMAIN errors :
                              errors[k].idx = j /\ errors[k].error = "IntegrityError"
                        /\ (Len(batch) = 2 => Len(synced) = 1 /\ Len(errors) = 1)

\* the scenario: two records without identity, one free pair, two species
C5_Witness ==
    /\ LoopOver
    /\ Len(batch) = 2
    /\ IsInsertRecord(batch[1]) /\ IsInsertRecord(batch[2])
    /\ Targets(batch[2], batch[1].farm_id, batch[1].position)
    /\ batch[1].species # batch[2].species
    /\ ~PositionTaken(trees, batch[1].farm_id, batch[1].position)
    /\ Len(synced) = 1 /\ Len(errors) = 1

\* ---------------------------------------------------------------- C6
\* the fields the record behind a synced entry wrote, as the statements write them
WroteFields(row, entry, inserted) ==
    /\ row.species = Get(entry.data, "species")
    /\ row.variety = Get(entry.data, "variety")
    /\ row.notes = Get(entry.data, "notes")
    /\ row.health = IF inserted THEN GetOr(entry.data, "health", "good")
                    ELSE Get(entry.data, "health")
    /\ row.synced = TRUE

\* C6: when sync_trees has returned, every record of the batch has been processed,
\* the ones after a failed record too, and the store holds the effect of every
\* synced record: its tree is there with the fields the record wrote (the record
\* that wrote a tree last, when several did).
C6_FailuresDoNotAbort ==
    pc = "done" =>
        /\ IndicesOf(synced) \cup IndicesOf(errors) = 1..Len(batch)
        /\ \A k \in DOMAIN synced :
              /\ Truthy(GetId(synced[k].data))
              /\ GetId(synced[k].data) \in DOMAIN trees
              /\ (\A h \in (k + 1)..Len(synced) : GetId(synced[h].data) # GetId(synced[k].data))
                    => WroteFields(trees[GetId(synced[k].data)], synced[k],
                                   GetId(synced[k].data) # GetId(batch[synced[k].idx]))

\* a call has returned in which a record failed and a later record succeeded
C6_Witness ==
    /\ pc = "done"
    /\ \E e \in DOMAIN errors, k \in DOMAIN synced :
          /\ errors[e].idx < synced[k].idx
          /\ GetId(synced[k].data) \in DOMAIN trees

\* ---------------------------------------------------------------- C7
\* every record of the batch is an update record: its identity is that of a tree
AllUpdates == \A i \in 1..Len(batch) : IsUpdate(trees, batch[i])

\* a batch of update records leaves the number of trees alone, and sent a second
\* time leaves every field but updated_at as the first run left it
C7_Idempotent ==
    (LoopOver /\ AllUpdates) =>
        /\ DOMAIN tx = DOMAIN trees
        /\ attempt = 2 =>
              \A t \in DOMAIN trees :
                  \A k \in DOMAIN trees[t] \ {"updated_at"} : tx[t][k] = trees[t][k]

\* only a record without identity adds a tree
C7_OnlyInsertRecordsCreate ==
    [][(sync_trees_record /\ DOMAIN tx' # DOMAIN tx) => ~Truthy(GetId(batch[idx]))]_vars

\* C7: sync_trees is idempotent for update records (a second run of the same batch
\* leaves the field values, updated_at aside, and the number of trees as the first
\* run left them), and only records without identity create trees.
C7_IdempotentAndOnlyInsertsCreate == []C7_Idempotent /\ C7_OnlyInsertRecordsCreate

\* ---------------------------------------------------------------- C8
\* identities in use anywhere in the store before the call
StoredIds ==
    DOMAIN farms \cup DOMAIN trees \cup DOMAIN interventions \cup DOMAIN tree_photos

\* C8: when the loop of sync_trees is over, every record is in synced at most once
\* and every synced entry carries the identity of a stored tree whose synced flag
\* is true.  For an update record it is the identity the record carried; otherwise
\* it is a new one, in use nowhere in the store before, carried by no other entry,
\* and the tree stored under it is the record's.  Every tree the call has added is
\* reported by an entry.
C8_SyncedCarryIdentity ==
    LoopOver =>
        /\ Cardinality(IndicesOf(synced)) = Len(synced)
        /\ \A k \in DOMAIN synced :
              LET id == GetId(synced[k].data)
                  r == batch[synced[k].idx]
              IN /\ Truthy(id)
                 /\ id \in DOMAIN tx
                 /\ tx[id].synced = TRUE
                 /\ IF IsUpdate(trees, r)
                       THEN id = r.id
                       ELSE /\ id \notin StoredIds
                            /\ \A h \in DOMAIN synced \ {k} : GetId(synced[h].data) # id
                            /\ Targets(tx[id], r.farm_id, r.position)
                            /\ tx[id].species = r.species
        /\ \A t \in DOMAIN tx \ DOMAIN trees :
              \E k \in DOMAIN synced : GetId(synced[k].data) = t

\* the loop is over with a record without identity in synced under a new identity
C8_Witness ==
    /\ LoopOver
    /\ \E k \in DOMAIN synced :
          /\ ~Truthy(GetId(batch[synced[k].idx]))
          /\ GetId(synced[k].data) \in DOMAIN tx \ DOMAIN trees

\* ---------------------------------------------------------------- C9
\* C9: a delete_farm(F) that succeeds leaves no farm F, no tree with farm_id F and
\* no intervention of a tree that belonged to F.
C9_DeleteFarmCascades ==
    [][\A f \in DOMAIN farms :
          delete_farm(f) =>
              /\ f \notin DOMAIN farms'
              /\ TreesOfFarm(trees', f) = {}
              /\ ChildrenOf(interventions', TreesOfFarm(trees, f)) = {}]_vars

\* a farm has been deleted, three identities or more have been issued (a farm, a
\* tree, an intervention) and the store is empty
C9_Witness ==
    /\ last = Result("delete_farm", 200)
    /\ nextId >= 4
    /\ farms = <<>> /\ trees = <<>> /\ interventions = <<>>

\* --------------------------------------------------------------- C10
\* C10: a delete_tree(T) that succeeds leaves no tree T and no intervention with
\* tree_id T; the other trees and the interventions of other trees are as before,
\* and nothing is added.
C10_DeleteTreeCascades ==
    [][\A t \in DOMAIN trees :
          delete_tree(t) =>
              /\ t \notin DOMAIN trees'
              /\ ChildrenOf(interventions', {t}) = {}
              /\ DOMAIN trees' = DOMAIN trees \ {t}
              /\ \A u \in DOMAIN trees' : trees'[u] = trees[u]
              /\ DOMAIN interventions' = DOMAIN interventions \ ChildrenOf(interventions, {t})
              /\ \A i \in DOMAIN interventions' : interventions'[i] = interventions[i]]_vars

\* a tree has been deleted and another tree and its intervention are still there
C10_Witness ==
    /\ last = Result("delete_tree", 200)
    /\ \E i \in DOMAIN interventions : interventions[i].tree_id \in DOMAIN trees

\* --------------------------------------------------------------- C11
\* the four tables
store == <<farms, trees, interventions, tree_photos>>

\* C11: delete_farm, delete_tree and delete_intervention called with an identity
\* that is not in the store answer 404 and leave farms, trees, interventions and
\* photos as they were.
C11_DeleteNotFound ==
    [][ /\ \A f \in FarmRefs \ DOMAIN farms :
              delete_farm(f) => (last' = Result("delete_farm", 404) /\ UNCHANGED store)
        /\ \A t \in TreeRefs \ DOMAIN trees :
              delete_tree(t) => (last' = Result("delete_tree", 404) /\ UNCHANGED store)
        /\ \A i \in {Ghost} \ DOMAIN interventions :
              delete_intervention(i)
                 => (last' = Result("delete_intervention", 404) /\ UNCHANGED store) ]_vars

\* delete_intervention has answered 404 on a store that holds an intervention
C11_Witness == last = Result("delete_intervention", 404) /\ interventions # <<>>

\* --------------------------------------------------------------- C12
\* the step adds exactly one tree, at (f, p), and leaves the other trees alone
AddsOneTreeAt(f, p) ==
    /\ \E t \in DOMAIN trees' \ DOMAIN trees :
          /\ DOMAIN trees' = DOMAIN trees \cup {t}
          /\ trees'[t].farm_id = f
          /\ trees'[t].position = p
    /\ \A u \in DOMAIN trees : trees'[u] = trees[u]

\* the claim as stated: on an occupied pair create_tree answers 400 naming the
\* position and changes nothing; on any free pair it adds one tree at the pair
C12_ConflictOrCreated ==
    [][\A f \in FarmRefs, p \in Positions, prof \in TreeProfiles :
          create_tree(TreeBody(f, p, prof)) =>
              IF PositionTaken(trees, f, p)
                 THEN /\ last' = [op |-> "create_tree", code |-> 400, detail |-> p]
                      /\ UNCHANGED store
                 ELSE /\ last' = Result("create_tree", 200)
                      /\ AddsOneTreeAt(f, p)]_vars

\* C12: create_tree on an occupied (farm_id, position) answers 400 naming the
\* position and leaves the store unchanged; on a free pair of a farm that exists
\* it succeeds and adds exactly one tree at that pair; on a free pair of a farm
\* that does not exist the store refuses the row and no tree is added.
C12_ConflictOrCreatedInFarm ==
    [][\A f \in FarmRefs, p \in Positions, prof \in TreeProfiles :
          create_tree(TreeBody(f, p, prof)) =>
              IF PositionTaken(trees, f, p)
                 THEN /\ last' = [op |-> "create_tree", code |-> 400, detail |-> p]
                      /\ UNCHANGED store
                 ELSE IF f \in DOMAIN farms
                 THEN /\ last' = Result("create_tree", 200)
                      /\ AddsOneTreeAt(f, p)
                 ELSE /\ last'.code # 200
                      /\ UNCHANGED store]_vars

\* the scenario: a second create_tree at A1 has been refused, the first tree is there
C12_Witness ==
    /\ last = [op |-> "create_tree", code |-> 400, detail |-> "A1"]
    /\ \E t \in DOMAIN trees : trees[t].position = "A1"

\* --------------------------------------------------------------- C13
\* the call of caller c has inserted its tree
Inserted(c) == calls[c].at = "done" /\ calls[c].code = 200 /\ calls[c].error = NULL

\* the call of caller c has been refused as a position conflict: 400 out of
\* create_tree and duplicate_tree, a listed record error out of sync_trees
RefusedAsConflict(c) ==
    /\ calls[c].at = "done"
    /\ \/ calls[c].code = 400
       \/ calls[c].op = "sync_trees" /\ calls[c].error = "IntegrityError"

\* the finished calls of c and d were for one pair (farm_id, position)
SamePair(c, d) ==
    /\ c # d
    /\ calls[c].at = "done" /\ calls[d].at = "done"
    /\ calls[c].row.farm_id = calls[d].row.farm_id
    /\ calls[c].row.position = calls[d].row.position

\* whatever the interleaving, no two trees hold one pair and two calls for one
\* pair never both insert
C13_RaceKeepsPositionsUnique ==
    /\ PositionsUnique(trees)
    /\ \A c, d \in Procs : SamePair(c, d) => ~(Inserted(c) /\ Inserted(d))

\* C13: when two inserting calls (create_tree, duplicate_tree, a sync insert) for
\* one (farm_id, position) interleave at their lookup and INSERT, no two trees
\* hold the pair, at most one call inserts, and the other is refused as a
\* position conflict.
C13_RaceLoserGetsConflict ==
    /\ C13_RaceKeepsPositionsUnique
    /\ \A c, d \in Procs :
          (SamePair(c, d) /\ Inserted(c)) => RefusedAsConflict(d)

\* --------------------------------------------------------------- C14
\* the step adds exactly one tree, the duplicate of source at (f, p), with no photo,
\* and leaves every other row of the store alone
AddsDuplicate(source, f, p) ==
    /\ \E n \in DOMAIN trees' \ DOMAIN trees :
          /\ DOMAIN trees' = DOMAIN trees \cup {n}
          /\ trees'[n].farm_id = f
          /\ trees'[n].position = p
          /\ trees'[n].species = source.species
          /\ trees'[n].variety = source.variety
          /\ trees'[n].origin = source.origin
          /\ trees'[n].health = "good"
          /\ trees'[n].synced = TRUE
          /\ trees'[n].notes = DupNote(source.position)
          /\ trees'[n].photo = NULL
          /\ ChildrenOf(tree_photos', {n}) = {}
    /\ \A u \in DOMAIN trees : trees'[u] = trees[u]
    /\ UNCHANGED <<farms, interventions, tree_photos>>

\* the claim as stated: for a source that exists and any free target pair the
\* duplicate is created
C14_DuplicateCreated ==
    [][\A t \in DOMAIN trees, p \in Positions, f \in FarmRefs \cup {EmptyId} :
          (duplicate_tree(t, p, f) /\ ~PositionTaken(trees, TargetFarm(f, trees[t]), p))
             => (last' = Result("duplicate_tree", 200)
                 /\ AddsDuplicate(trees[t], TargetFarm(f, trees[t]), p))]_vars

\* C14: duplicate_tree with a source that exists and a free target pair of a farm
\* that exists (the target farm, or the source's when none is given) creates
\* exactly one tree at that pair with the source's species, variety and origin,
\* health good, no photo, synced true and a note naming the source's position,
\* and leaves the source and every other row unchanged; when the target farm does
\* not exist the store refuses the row and nothing is created.
C14_DuplicateCreatedInFarm ==
    [][\A t \in DOMAIN trees, p \in Positions, f \in FarmRefs \cup {EmptyId} :
          (duplicate_tree(t, p, f) /\ ~PositionTaken(trees, TargetFarm(f, trees[t]), p))
             => IF TargetFarm(f, trees[t]) \in DOMAIN farms
                   THEN /\ last' = Result("duplicate_tree", 200)
                        /\ AddsDuplicate(trees[t], TargetFarm(f, trees[t]), p)
                   ELSE /\ last'.code # 200
                        /\ UNCHANGED store]_vars

\* a tree at A1 whose health is not good has been duplicated onto B2 of its farm
C14_Witness ==
    /\ last = Result("duplicate_tree", 200)
    /\ \E t, n \in DOMAIN trees :
          /\ trees[t].position = "A1" /\ trees[t].health = "poor"
          /\ trees[n].position = "B2" /\ trees[n].farm_id = trees[t].farm_id
          /\ trees[n].notes = DupNote("A1") /\ trees[n].health = "good"

\* --------------------------------------------------------------- C15
\* C15: duplicate_tree answers 404 when the source tree does not exist and 400,
\* naming the position, when a tree holds the target position in the resolved
\* target farm; in both cases the store is unchanged.
C15_DuplicateRefused ==
    [][\A t \in TreeRefs, p \in Positions, f \in FarmRefs \cup {EmptyId} :
          duplicate_tree(t, p, f) =>
              /\ t \notin DOMAIN trees
                    => (last' = Result("duplicate_tree", 404) /\ UNCHANGED store)
              /\ (t \in DOMAIN trees /\ PositionTaken(trees, TargetFarm(f, trees[t]), p))
                    => (last' = [op |-> "duplicate_tree", code |-> 400, detail |-> p]
                        /\ UNCHANGED store)]_vars

\* a duplicate onto an occupied position has been refused
C15_Witness ==
    /\ last = [op |-> "duplicate_tree", code |-> 400, detail |-> "A1"]
    /\ \E t \in DOMAIN trees : trees[t].position = "A1"

\* --------------------------------------------------------------- C16
\* list L without its element at 0-based index i
RemoveAt(L, i) == SubSeq(L, 1, i) \o SubSeq(L, i + 2, Len(L))

\* the last element of a list, or NULL for the empty list
LastOrNull(L) == IF L = <<>> THEN NULL ELSE L[Len(L)]

\* the photo lists of the trees other than t are as before
OtherListsKept(t) ==
    \A u \in DOMAIN trees \ {t} : PhotoList(tree_photos', u) = PhotoList(tree_photos, u)

C17_DeletePhotoOutOfRange ==
    [][\A t \in TreeRefs, i \in PhotoIndexes :
          (delete_photo(t, i) /\ (i < 0 \/ i >= Len(PhotoList(tree_photos, t))))
             => (last' = Result("delete_photo", 400) /\ UNCHANGED store)]_vars

\* delete_photo has been refused while a tree has photos
C17_Witness ==
    /\ last = Result("delete_photo", 400)
    /\ \E t \in DOMAIN trees : PhotoList(tree_photos, t) # <<>>

\* --------------------------------------------------------------- C18
\* the photo list and the primary photo of tree t after add_photo(t, photo)
\* followed by delete_photo(t, last index), computed as the handlers compute them
RoundTrip(t, photo) ==
    LET P1 == AddPhotoRow(tree_photos, t, photo, nextId, now)
        T1 == SetPrimary(trees, t, photo, now)
        P2 == DeletePhotoRow(P1, t, PhotoCount(P1, t) - 1)
        T2 == SetPrimary(T1, t, LastPhoto(P2, t), now + 1)
    IN [list |-> PhotoList(P2, t), primary |-> T2[t].photo]

\* C18: for every tree of every reachable state, add_photo followed by delete_photo
\* of the last index gives back the photo list and the primary photo the tree had.
C18_PhotoRoundTrip ==
    \A t \in DOMAIN trees, photo \in {"p2", "p3"} :
        /\ RoundTrip(t, photo).list = PhotoList(tree_photos, t)
        /\ RoundTrip(t, photo).primary = trees[t].photo

C20_PrimaryIsLastPhoto ==
    \A t \in DOMAIN trees : trees[t].photo = LastOrNull(PhotoList(tree_photos, t))

\* no two photos of one tree carry the same created_at
PhotoStampsDistinct ==
    \A i, j \in DOMAIN tree_photos :
        (tree_photos[i].tree_id = tree_photos[j].tree_id
         /\ tree_photos[i].created_at = tree_photos[j].created_at) => i = j

\* --------------------------------------------------------------- C21
\* the four health states, and the health values the trees in S hold
HealthValues(S) == {"good", "fair", "poor", "dead"} \cup {trees[t].health : t \in S}

\* the counts of stats are those of the trees of farm f and of their interventions
CountsMatch(st, f) ==
    LET S == TreesOfFarm(trees, f) IN
    /\ st.stats.total = Cardinality(S)
    /\ \A h \in HealthValues(S) :
          GetOr(st.stats, h, 0) = Cardinality({t \in S : trees[t].health = h})
    /\ st.stats.total_interventions
          = AddCounts(0, st.interventions_by_type, DOMAIN st.interventions_by_type)
    /\ st.stats.total_interventions = Cardinality(ChildrenOf(interventions, S))

\* C21: get_statistics(F) answers total = the number of trees of farm F, under every
\* health value h, the four states or not, the number of those trees with health h,
\* and total_interventions = the sum of interventions_by_type = the number of
\* interventions of those trees; the store is unchanged.
C21_StatisticsCount ==
    [][\A f \in FarmRefs :
          get_statistics(f) =>
              /\ last'.code = 200
              /\ CountsMatch(last', f)
              /\ UNCHANGED store]_vars

\* the same for farms none of whose trees has the name of a field as its health
StatisticsCountOffFieldNames ==
    [][\A f \in FarmRefs :
          (get_statistics(f)
           /\ \A t \in TreesOfFarm(trees, f) : trees[t].health \in {"good", "sick"}) =>
              /\ last'.code = 200
              /\ CountsMatch(last', f)
              /\ UNCHANGED store]_vars

\* --------------------------------------------------------------- C22
\* row T'[id] is row T[id] with the fields of patch laid over it, updated_at aside,
\* and the other rows of the table are as they were
PatchApplied(T, Tnew, id, patch) ==
    /\ DOMAIN Tnew = DOMAIN T
    /\ \A k \in DOMAIN T[id] \ {"updated_at"} :
          Tnew[id][k] = IF k \in DOMAIN patch THEN patch[k] ELSE T[id][k]
    /\ \A other \in DOMAIN T \ {id} : Tnew[other] = T[other]

\* what update_farm(f, patch) and update_tree(t, patch) do to the store when the
\* patch is applied
FarmPatched(f, patch) ==
    /\ PatchApplied(farms, farms', f, patch)
    /\ UNCHANGED <<trees, interventions, tree_photos>>
    /\ DOMAIN patch = {} => UNCHANGED store

TreePatched(t, patch) ==
    /\ PatchApplied(trees, trees', t, patch)
    /\ UNCHANGED <<farms, interventions, tree_photos>>
    /\ DOMAIN patch = {} => UNCHANGED store

C23_FailedCallChangesNothing ==
    [][last'.code >= 400 => UNCHANGED store]_vars

\* create_tree with a photo has failed at its tree_photos insert, after its tree
\* insert: two identities are used up and there is no tree
C23_Witness ==
    /\ last = Result("create_tree", 500)
    /\ DOMAIN farms = {1}
    /\ trees = <<>> /\ tree_photos = <<>>
    /\ nextId = 4 /\ now = 3

\* --------------------------------------------------------------- C24
\* C24: each record of a sync_trees batch is committed on its own: when the commit
\* that ends the call fails, the tree of every record already listed in synced is
\* in the store as that record left it.
C24_SyncedRecordsStay ==
    [][sync_trees_commit_fails =>
          \A k \in DOMAIN synced :
              /\ GetId(synced[k].data) \in DOMAIN trees'
              /\ trees'[GetId(synced[k].data)] = tx[GetId(synced[k].data)]]_vars

\* inside the loop a record that failed has left nothing in the open transaction
FailedRecordLeavesNothing ==
    [][(sync_trees_record /\ Len(errors') > Len(errors)) => tx' = tx]_vars

\* --------------------------------------------------------------- C25
\* every intervention belongs to a tree of the store
InterventionsHaveTrees == \A i \in DOMAIN interventions : interventions[i].tree_id \in DOMAIN trees

\* C25: in every reachable state the tree_id of every intervention is the identity
\* of a tree of the store, and create_intervention for a tree that is not there
\* answers 404 and creates nothing.
C25_NoOrphanIntervention ==
    /\ []InterventionsHaveTrees
    /\ [][\A t \in TreeRefs, ty \in InterventionTypes :
             (create_intervention(t, ty) /\ t \notin DOMAIN trees)
                => (last' = Result("create_intervention", 404) /\ UNCHANGED store)]_vars

\* create_intervention has been refused for an absent tree while the store holds
\* interventions
C25_Witness ==
    /\ last = Result("create_intervention", 404)
    /\ interventions # <<>>

\* --------------------------------------------------------------- C26
\* C26: in every reachable state the farm_id of every tree is the identity of a
\* farm of the store.
C26_NoOrphanTree == \A t \in DOMAIN trees : trees[t].farm_id \in DOMAIN farms

\* a farm has been deleted and the trees of another farm are still there
C26_Witness ==
    /\ last = Result("delete_farm", 200)
    /\ trees # <<>>

\* --------------------------------------------------------------- C27
\* the columns of a tree an update record must leave alone
PlaceOf(row) == <<row.farm_id, row.position, row.plant_date, row.photo>>

\* C27: an update record of sync_trees leaves the farm_id, position, plant_date and
\* photos of the tree it names as they were, whatever the record carries for them,
\* and leaves every other tree as it was; no tree is added or removed, so a batch
\* of update records alone keeps (farm_id, position) unique, in the transaction
\* and in the store once it is committed.
C27_UpdateKeepsPlace ==
    [][/\ (sync_trees_record /\ IsUpdate(tx, RecordAt(batch, idx))) =>
             /\ DOMAIN tx' = DOMAIN tx
             /\ PlaceOf(tx'[RecordAt(batch, idx).id]) = PlaceOf(tx[RecordAt(batch, idx).id])
             /\ \A other \in DOMAIN tx \ {RecordAt(batch, idx).id} : tx'[other] = tx[other]
             /\ tree_photos' = tree_photos
             /\ PositionsUnique(tx) => PositionsUnique(tx')
       /\ (sync_trees_return /\ \A i \in 1..Len(batch) : batch[i] \in MovingRecords \cup UpdateRecords) =>
             /\ DOMAIN trees' = DOMAIN trees
             /\ \A t \in DOMAIN trees : PlaceOf(trees'[t]) = PlaceOf(trees[t])
             /\ PositionsUnique(trees')]_vars

\* a committed update record that named the farm and position of another tree:
\* its tree has the record's species and is where it was
C27_Witness ==
    /\ pc = "done"
    /\ \E k \in DOMAIN synced :
          /\ "position" \in DOMAIN synced[k].data
          /\ synced[k].data.id \in DOMAIN trees
          /\ trees[synced[k].data.id].position # synced[k].data.position
          /\ trees[synced[k].data.id].species = "Fig"
          /\ \E other \in DOMAIN trees \ {synced[k].data.id} :
                /\ trees[other].farm_id = synced[k].data.farm_id
                /\ trees[other].position = synced[k].data.position

====
